---- MODULE Spec2Model ----
(***************************************************************************)
(* A state-machine model of the arti-ffi boundary (src/src/lib.rs and      *)
(* src/src/error.rs): the thread-local error slot, the handles produced    *)
(* by arti_start, the progress channel and the spawned proxy task.         *)
(*                                                                         *)
(* Raw pointers are modelled as natural numbers, 0 being the null pointer. *)
(* Every arti_start call allocates a fresh "session" i; the four boxes it  *)
(* may allocate get the addresses 4*(i-1)+1 .. 4*(i-1)+4.                  *)
(***************************************************************************)
EXTENDS Integers, Sequences, FiniteSets

\* ------------------------------------------------------------------ bounds

\* Number of arti_start calls explored.
MaxStarts == 2

\* Number of boundary calls the callers make, over all threads.
MaxCalls == 4

\* Number of messages the channel harness (ChanSpec) sends on one channel.
MaxSends == 2

\* Number of messages the burst harness (BurstSpec) sends on one channel: more
\* than the channel holds.
MaxBurst == 101

\* mpsc::channel::<String>(100)
ChannelCapacity == 100

Threads == {"A", "B"}

Sessions == 1 .. MaxStarts

NULL == 0

\* C strings passed as state_dir / cache_dir, as byte sequences (without the
\* terminating NUL): "/" followed by the two bytes of U+00E9, the bytes FF FE, and
\* "/" followed by FF.
Paths == { <<47, 195, 169>>, <<255, 254>>, <<47, 255>> }

\* Texts the channel harness sends.
HarnessMsgs == {"m1", "m2"}

VARIABLES
    proc,        \* "running" | "aborted" (a panic reached the extern "C" frame) | "undefined" (a freed box was used)
    pc,          \* per thread: "idle" or the blocking call the thread is inside
    ret,         \* per thread: the value the last completed call returned
    cur,         \* per thread: the session the call in flight works on
    errSlot,     \* LAST_ERROR, one Option<Box<dyn Error>> per thread
    nCalls,      \* number of boundary calls made so far
    nStarts,     \* number of arti_start calls made so far
    startState,  \* per session: how far its arti_start got
    queue,       \* per session: messages pending in the mpsc channel
    senders,     \* per session: number of live Sender clones
    senderBox,   \* per session: Box<Sender> behind the progress_sender pointer
    receiverBox, \* per session: Box<Receiver> behind the progress_receiver pointer
    sent,        \* per session: every message whose send completed, in order (history)
    received,    \* per session: every message a blocking_recv returned, in order (history)
    clientBox,   \* per session: Box<TorClient> behind the client pointer
    proxyBox,    \* per session: Box<JoinHandle> behind the proxy pointer
    task,        \* per session: the future spawned by start_proxy
    abortReq,    \* per session: JoinHandle::abort was called
    dormant,     \* per session: the client's DormantMode
    RUNTIME,     \* the lazy_static io::Result<Runtime>
    tlsRuntimes  \* number of TokioNativeTlsRuntime::create() calls that succeeded

vars == << proc, pc, ret, cur, errSlot, nCalls, nStarts, startState, queue, senders,
           senderBox, receiverBox, sent, received, clientBox, proxyBox, task, abortReq, dormant,
           RUNTIME, tlsRuntimes >>

\* The variables of the progress channels.
chanVars == << queue, senders, senderBox, receiverBox, sent, received >>

\* The variables of the client and proxy handles and of the tasks.
handleVars == << clientBox, proxyBox, task, abortReq, dormant >>

\* The process-wide variables.
procVars == << proc, RUNTIME, tlsRuntimes >>

\* ------------------------------------------------------------- pure helpers

\* Option::None of LAST_ERROR.
NoError == [kind |-> "None", detail |-> 0, origin |-> "-"]

\* An error value; origin is the thread on which it was constructed (history only,
\* it is not part of the message).
MkError(kind, detail, t) == [kind |-> kind, detail |-> detail, origin |-> t]

\* core::str::from_utf8 as used by CStr::to_str: the number of leading bytes that
\* form well-formed UTF-8. ASCII and two-byte sequences are decoded; the bytes
\* used by three- and four-byte sequences (E0..F4) do not occur in Paths.
RECURSIVE ValidUpTo(_, _)
ValidUpTo(b, k) ==
    IF k >= Len(b) THEN k
    ELSE IF b[k + 1] < 128 THEN ValidUpTo(b, k + 1)
    ELSE IF /\ b[k + 1] >= 194 /\ b[k + 1] <= 223
            /\ k + 2 <= Len(b)
            /\ b[k + 2] >= 128 /\ b[k + 2] <= 191
         THEN ValidUpTo(b, k + 2)
    ELSE k

\* CStr::from_ptr(p).to_str() is Ok.
ToStrOk(b) == ValidUpTo(b, 0) = Len(b)

\* <dyn Error as Display>::to_string, as a C string (a sequence of tokens; the
\* empty C string is <<>>).
to_string(e) ==
    CASE e.kind = "Utf8Error"      -> << "invalid utf-8 sequence from index", e.detail >>
      [] e.kind = "IoError"        -> << "failed to create runtime" >>
      [] e.kind = "ConfigBuildError" -> << "configuration build failed" >>
      [] e.kind = "BootstrapError" -> << "unable to bootstrap" >>
      [] OTHER                     -> << >>

\* Faulty variant of SlotOf: LAST_ERROR as one process-wide static.
SlotOf_Global(t) == "A"

\* thread_local!: the slot the code running on thread t sees.
SlotOf(t) == t

\* Faulty variant of update_last_error: an unread error is kept, the new one lost.
update_last_error_KeepFirst(t, e) ==
    IF errSlot[SlotOf(t)] = NoError THEN [errSlot EXCEPT ![SlotOf(t)] = e] ELSE errSlot

\* update_last_error(err) on thread t: the new LAST_ERROR.
update_last_error(t, e) == [errSlot EXCEPT ![SlotOf(t)] = e]

\* Faulty variant of take_last_error: the slot is read and not cleared.
take_last_error_Peek(t) == errSlot

\* take_last_error() on thread t: the new LAST_ERROR (the value returned is
\* errSlot[SlotOf(t)]).
take_last_error(t) == [errSlot EXCEPT ![SlotOf(t)] = NoError]

\* Box::into_raw addresses of session i.
SenderPtr(i)   == 4 * (i - 1) + 1
ReceiverPtr(i) == 4 * (i - 1) + 2
ProxyPtr(i)    == 4 * (i - 1) + 3
ClientPtr(i)   == 4 * (i - 1) + 4

\* Faulty variant of ErrRet: err_ret built before the channel, its ends null.
ErrRet_NullEnds(i) == [op |-> "start", client |-> NULL, proxy |-> NULL,
                       progress_sender |-> NULL, progress_receiver |-> NULL]

\* err_ret of arti_start.
ErrRet(i) == [op |-> "start", client |-> NULL, proxy |-> NULL,
              progress_sender |-> SenderPtr(i), progress_receiver |-> ReceiverPtr(i)]

\* The Tor struct arti_start returns on success.
OkRet(i) == [op |-> "start", client |-> ClientPtr(i), proxy |-> ProxyPtr(i),
             progress_sender |-> SenderPtr(i), progress_receiver |-> ReceiverPtr(i)]

\* Faulty variant of StartPrologue: cache_dir is not decoded.
StartPrologue_SkipCacheDir(t, stateDir, cacheDir, rtOk, cfgOk) ==
    IF ~ToStrOk(stateDir) THEN MkError("Utf8Error", ValidUpTo(stateDir, 0), t)
    ELSE IF ~rtOk THEN MkError("IoError", 0, t)
    ELSE IF ~cfgOk THEN MkError("ConfigBuildError", 0, t)
    ELSE NoError

\* The first failing step of arti_start before the bootstrap, or "none".
StartPrologue(t, stateDir, cacheDir, rtOk, cfgOk) ==
    IF ~ToStrOk(stateDir) THEN MkError("Utf8Error", ValidUpTo(stateDir, 0), t)
    ELSE IF ~ToStrOk(cacheDir) THEN MkError("Utf8Error", ValidUpTo(cacheDir, 0), t)
    ELSE IF ~rtOk THEN MkError("IoError", 0, t)
    ELSE IF ~cfgOk THEN MkError("ConfigBuildError", 0, t)
    ELSE NoError

\* ------------------------------------------------------------------- Init

Init ==
    /\ proc = "running"
    /\ pc = [t \in Threads |-> "idle"]
    /\ ret = [t \in Threads |-> [op |-> "none"]]
    /\ cur = [t \in Threads |-> 0]
    /\ errSlot = [t \in Threads |-> NoError]
    /\ nCalls = 0
    /\ nStarts = 0
    /\ startState = [i \in Sessions |-> "none"]
    /\ queue = [i \in Sessions |-> << >>]
    /\ senders = [i \in Sessions |-> 0]
    /\ senderBox = [i \in Sessions |-> "none"]
    /\ receiverBox = [i \in Sessions |-> "none"]
    /\ sent = [i \in Sessions |-> << >>]
    /\ received = [i \in Sessions |-> << >>]
    /\ clientBox = [i \in Sessions |-> "none"]
    /\ proxyBox = [i \in Sessions |-> "none"]
    /\ task = [i \in Sessions |-> "none"]
    /\ abortReq = [i \in Sessions |-> FALSE]
    /\ dormant = [i \in Sessions |-> "Normal"]
    /\ RUNTIME = "uninit"
    /\ tlsRuntimes = 0

\* A thread that is not inside a call makes a new boundary call.
CanCall(t) ==
    /\ proc = "running"
    /\ pc[t] = "idle"
    /\ nCalls < MaxCalls

\* ---------------------------------------------------------------- arti_start

\* arti_start, lines 54-84: the channel and its two boxes, the decoding of the two
\* paths, TokioNativeTlsRuntime::create() and cfg_builder.build(). rtOk and cfgOk
\* are the results of the two external calls, made only once both paths decoded.
\* On success the thread goes on to block in runtime.block_on(create_bootstrapped()).
ArtiStartCall(t, stateDir, cacheDir) ==
    LET i == nStarts + 1
        decoded == ToStrOk(stateDir) /\ ToStrOk(cacheDir)
    IN  /\ CanCall(t)
        /\ nStarts < MaxStarts
        /\ nCalls' = nCalls + 1
        /\ nStarts' = i
        /\ senders' = [senders EXCEPT ![i] = 1]
        /\ senderBox' = [senderBox EXCEPT ![i] = "live"]
        /\ receiverBox' = [receiverBox EXCEPT ![i] = "live"]
        /\ \E rtOk \in (IF decoded THEN BOOLEAN ELSE {TRUE}),
              cfgOk \in (IF decoded THEN BOOLEAN ELSE {TRUE}) :
              LET e == StartPrologue(t, stateDir, cacheDir, rtOk, cfgOk)
              IN  /\ tlsRuntimes' = IF decoded /\ rtOk THEN tlsRuntimes + 1
                                    ELSE tlsRuntimes
                  /\ IF e # NoError
                     THEN /\ errSlot' = update_last_error(t, e)
                          /\ ret' = [ret EXCEPT ![t] = ErrRet(i)]
                          /\ startState' = [startState EXCEPT ![i] = "failed"]
                          /\ UNCHANGED << pc, cur >>
                     ELSE /\ pc' = [pc EXCEPT ![t] = "start_bootstrap"]
                          /\ cur' = [cur EXCEPT ![t] = i]
                          /\ startState' = [startState EXCEPT ![i] = "pending"]
                          /\ UNCHANGED << errSlot, ret >>
        /\ UNCHANGED << proc, RUNTIME, queue, sent, received, handleVars >>

\* start_proxy, lines 34-37: RUNTIME.as_ref().unwrap() (forcing the lazy static on
\* first use; built is the result of Builder::build()), the clone of the sender and
\* the spawn. When RUNTIME is Err the unwrap panics inside the extern "C" call.
start_proxy(i, built) ==
    LET rt == IF RUNTIME = "uninit" THEN (IF built THEN "ok" ELSE "err") ELSE RUNTIME
    IN  /\ RUNTIME' = rt
        /\ IF rt = "err"
           THEN /\ proc' = "aborted"
                /\ UNCHANGED << task, senders >>
           ELSE /\ task' = [task EXCEPT ![i] = "spawned"]
                /\ senders' = [senders EXCEPT ![i] = @ + 1]
                /\ UNCHANGED proc

\* arti_start, lines 87-108: the result of create_bootstrapped() (ok), then
\* start_proxy and the two boxes of the success return.
ArtiStartBootstrapDone(t, ok, built) ==
    LET i == cur[t]
    IN  /\ proc = "running"
        /\ pc[t] = "start_bootstrap"
        /\ IF ~ok
           THEN /\ errSlot' = update_last_error(t, MkError("BootstrapError", 0, t))
                /\ ret' = [ret EXCEPT ![t] = ErrRet(i)]
                /\ startState' = [startState EXCEPT ![i] = "failed"]
                /\ pc' = [pc EXCEPT ![t] = "idle"]
                /\ cur' = [cur EXCEPT ![t] = 0]
                /\ UNCHANGED << proc, RUNTIME, task, senders, clientBox, proxyBox >>
           ELSE /\ start_proxy(i, built)
                /\ UNCHANGED errSlot
                /\ IF RUNTIME' = "err"
                   THEN UNCHANGED << ret, startState, pc, cur, clientBox, proxyBox >>
                   ELSE /\ ret' = [ret EXCEPT ![t] = OkRet(i)]
                        /\ startState' = [startState EXCEPT ![i] = "ok"]
                        /\ pc' = [pc EXCEPT ![t] = "idle"]
                        /\ cur' = [cur EXCEPT ![t] = 0]
                        /\ clientBox' = [clientBox EXCEPT ![i] = "live"]
                        /\ proxyBox' = [proxyBox EXCEPT ![i] = "live"]
        /\ UNCHANGED << nCalls, nStarts, tlsRuntimes, queue, senderBox, receiverBox, sent, received,
                        abortReq, dormant >>

\* -------------------------------------------------------- client operations

\* arti_client_bootstrap, lines 114-116: Box::from_raw takes the box back; the
\* thread then blocks in client.runtime().block_on(client.bootstrap()).
ArtiClientBootstrapCall(t, i) ==
    /\ CanCall(t)
    /\ clientBox[i] = "live"
    /\ nCalls' = nCalls + 1
    /\ clientBox' = [clientBox EXCEPT ![i] = "reclaimed"]
    /\ pc' = [pc EXCEPT ![t] = "client_bootstrap"]
    /\ cur' = [cur EXCEPT ![t] = i]
    /\ UNCHANGED << procVars, ret, errSlot, nStarts, startState, chanVars, proxyBox,
                    task, abortReq, dormant >>

\* Faulty variant of BootstrapBoxAtReturn: the box is leaked back on success.
BootstrapBoxAtReturn_LeakOnSuccess(ok) == IF ok THEN "live" ELSE "freed"

\* What becomes of the reclaimed Box<TorClient> when arti_client_bootstrap returns
\* ok: the local goes out of scope on both paths and is dropped.
BootstrapBoxAtReturn(ok) == "freed"

\* arti_client_bootstrap, lines 119-121: the result of bootstrap() (ok); on Err
\* unwrap_or_return records the error and returns false.
ArtiClientBootstrapDone(t, ok) ==
    LET i == cur[t]
    IN  /\ proc = "running"
        /\ pc[t] = "client_bootstrap"
        /\ errSlot' = IF ok THEN errSlot
                      ELSE update_last_error(t, MkError("BootstrapError", 0, t))
        /\ ret' = [ret EXCEPT ![t] = [op |-> "client_bootstrap", value |-> ok]]
        /\ clientBox' = [clientBox EXCEPT ![i] = BootstrapBoxAtReturn(ok)]
        /\ pc' = [pc EXCEPT ![t] = "idle"]
        /\ cur' = [cur EXCEPT ![t] = 0]
        /\ UNCHANGED << procVars, nCalls, nStarts, startState, chanVars, proxyBox, task,
                        abortReq, dormant >>

\* Faulty variant of DormantBoxAtReturn: Box::leak forgotten, the box is dropped.
DormantBoxAtReturn_Dropped == "freed"

\* What becomes of the Box<TorClient> at the end of arti_client_set_dormant:
\* Box::leak gives it back to the raw pointer.
DormantBoxAtReturn == "live"

\* Faulty variant of ArtiClientSetDormant: the call resets the error slot.
ArtiClientSetDormant_ClearsError(t, i, soft_mode) ==
    /\ CanCall(t)
    /\ clientBox[i] = "live"
    /\ nCalls' = nCalls + 1
    /\ dormant' = [dormant EXCEPT ![i] = IF soft_mode THEN "Soft" ELSE "Normal"]
    /\ clientBox' = [clientBox EXCEPT ![i] = DormantBoxAtReturn]
    /\ ret' = [ret EXCEPT ![t] = [op |-> "client_set_dormant"]]
    /\ errSlot' = take_last_error(t)
    /\ UNCHANGED << procVars, pc, cur, nStarts, startState, chanVars, proxyBox, task,
                    abortReq >>

\* arti_client_set_dormant, lines 124-138.
ArtiClientSetDormant(t, i, soft_mode) ==
    /\ CanCall(t)
    /\ clientBox[i] = "live"
    /\ nCalls' = nCalls + 1
    /\ dormant' = [dormant EXCEPT ![i] = IF soft_mode THEN "Soft" ELSE "Normal"]
    /\ clientBox' = [clientBox EXCEPT ![i] = DormantBoxAtReturn]
    /\ ret' = [ret EXCEPT ![t] = [op |-> "client_set_dormant"]]
    /\ UNCHANGED << procVars, pc, cur, errSlot, nStarts, startState, chanVars, proxyBox,
                    task, abortReq >>

\* ------------------------------------------------------------------ the proxy

\* Faulty variant of ProxyStopReturns: the call joins the task after the abort.
ProxyStopReturns_Joined(i) == task[i] \notin {"spawned", "serving"}

\* When arti_proxy_stop can return: JoinHandle::abort only sets the cancellation
\* flag of the task, it waits for nothing.
ProxyStopReturns(i) == TRUE

\* Faulty variant of AbortTargets: every proxy task is aborted.
AbortTargets_All(i) == Sessions

\* The sessions whose task the abort of arti_proxy_stop(ProxyPtr(i)) is requested of.
AbortTargets(i) == {i}

\* Faulty variant of ArtiProxyStop: the client is torn down with the proxy.
ArtiProxyStop_FreesClient(t, i) ==
    /\ CanCall(t)
    /\ proxyBox[i] = "live"
    /\ ProxyStopReturns(i)
    /\ nCalls' = nCalls + 1
    /\ abortReq' = [j \in Sessions |-> IF j \in AbortTargets(i) THEN TRUE ELSE abortReq[j]]
    /\ proxyBox' = [proxyBox EXCEPT ![i] = "freed"]
    /\ clientBox' = [clientBox EXCEPT ![i] = IF @ = "live" THEN "freed" ELSE @]
    /\ ret' = [ret EXCEPT ![t] = [op |-> "proxy_stop"]]
    /\ UNCHANGED << procVars, pc, cur, errSlot, nStarts, startState, chanVars, task,
                    dormant >>

\* arti_proxy_stop, lines 141-148: Box::from_raw, abort, and the drop of the box
\* (dropping a JoinHandle detaches, it does not cancel).
ArtiProxyStop(t, i) ==
    /\ CanCall(t)
    /\ proxyBox[i] = "live"
    /\ ProxyStopReturns(i)
    /\ nCalls' = nCalls + 1
    /\ abortReq' = [j \in Sessions |-> IF j \in AbortTargets(i) THEN TRUE ELSE abortReq[j]]
    /\ proxyBox' = [proxyBox EXCEPT ![i] = "freed"]
    /\ ret' = [ret EXCEPT ![t] = [op |-> "proxy_stop"]]
    /\ UNCHANGED << procVars, pc, cur, errSlot, nStarts, startState, chanVars, clientBox,
                    task, dormant >>

\* Faulty variant of SendCompletes: an unbounded channel, a send never waits.
SendCompletes_Unbounded(q) == TRUE

\* Sender::send(..).await on a channel whose pending messages are q: it completes
\* when the channel made by mpsc::channel(100) has a free slot, and stays
\* suspended until then.
SendCompletes(q) == Len(q) < ChannelCapacity

\* Faulty variant of TaskSendStarted: the event is published twice.
TaskSendStarted_Twice(i) ==
    /\ proc = "running"
    /\ task[i] = "spawned"
    /\ Len(queue[i]) + 1 < ChannelCapacity
    /\ queue' = [queue EXCEPT ![i] = @ \o << "Proxy started", "Proxy started" >>]
    /\ sent' = [sent EXCEPT ![i] = @ \o << "Proxy started", "Proxy started" >>]
    /\ task' = [task EXCEPT ![i] = "serving"]
    /\ UNCHANGED << procVars, pc, ret, cur, errSlot, nCalls, nStarts, startState, senders,
                    senderBox, receiverBox, received, clientBox, proxyBox, abortReq, dormant >>

\* Faulty variant of TaskSendStarted: one channel shared by every start, the event
\* lands on every channel created so far.
TaskSendStarted_Broadcast(i) ==
    /\ proc = "running"
    /\ task[i] = "spawned"
    /\ Len(queue[i]) < ChannelCapacity
    /\ queue' = [j \in Sessions |-> IF startState[j] # "none"
                                     THEN Append(queue[j], "Proxy started")
                                     ELSE queue[j]]
    /\ sent' = [j \in Sessions |-> IF startState[j] # "none"
                                    THEN Append(sent[j], "Proxy started")
                                    ELSE sent[j]]
    /\ task' = [task EXCEPT ![i] = "serving"]
    /\ UNCHANGED << procVars, pc, ret, cur, errSlot, nCalls, nStarts, startState, senders,
                    senderBox, receiverBox, received, clientBox, proxyBox, abortReq,
                    dormant >>

\* Faulty variant of TaskSendStarted: the service is started without waiting for
\* the send.
TaskSendStarted_ServeFirst(i) ==
    /\ proc = "running"
    /\ task[i] = "spawned"
    /\ task' = [task EXCEPT ![i] = "serving"]
    /\ UNCHANGED << procVars, pc, ret, cur, errSlot, nCalls, nStarts, startState, queue,
                    senders, senderBox, receiverBox, sent, received, clientBox, proxyBox,
                    abortReq, dormant >>

\* The spawned future, line 38: progress_sender.send("Proxy started").await. The
\* send completes when the queue has room. (A poll that is already running when
\* abort is called still completes this step.)
TaskSendStarted(i) ==
    /\ proc = "running"
    /\ task[i] = "spawned"
    /\ SendCompletes(queue[i])
    /\ queue' = [queue EXCEPT ![i] = Append(@, "Proxy started")]
    /\ sent' = [sent EXCEPT ![i] = Append(@, "Proxy started")]
    /\ task' = [task EXCEPT ![i] = "serving"]
    /\ UNCHANGED << procVars, pc, ret, cur, errSlot, nCalls, nStarts, startState, senders,
                    senderBox, receiverBox, received, clientBox, proxyBox, abortReq, dormant >>

\* Faulty variant of TaskExit: the task starts over when its service ends.
TaskExit_Restarts(i) ==
    /\ proc = "running"
    /\ task[i] = "serving"
    /\ task' = [task EXCEPT ![i] = "spawned"]
    /\ UNCHANGED << procVars, pc, ret, cur, errSlot, nCalls, nStarts, startState, queue,
                    senders, senderBox, receiverBox, sent, received, clientBox, proxyBox,
                    abortReq, dormant >>

\* Faulty variant of TaskExit: the service's error is recorded in a caller's slot.
TaskExit_RecordsError(i) ==
    LET t == CHOOSE u \in Threads : TRUE
    IN  /\ proc = "running"
        /\ task[i] = "serving"
        /\ task' = [task EXCEPT ![i] = "finished"]
        /\ senders' = [senders EXCEPT ![i] = @ - 1]
        /\ errSlot' = update_last_error(t, MkError("ProxyError", 0, t))
        /\ UNCHANGED << procVars, pc, ret, cur, nCalls, nStarts, startState, queue,
                        senderBox, receiverBox, sent, received, clientBox, proxyBox,
                        abortReq, dormant >>

\* The spawned future, lines 39-44: run_socks_proxy returns (the listener could
\* not be bound, or the service ended). The future's captures, the sender clone
\* among them, are dropped. The result stays in the task.
TaskExit(i) ==
    /\ proc = "running"
    /\ task[i] = "serving"
    /\ task' = [task EXCEPT ![i] = "finished"]
    /\ senders' = [senders EXCEPT ![i] = @ - 1]
    /\ UNCHANGED << procVars, pc, ret, cur, errSlot, nCalls, nStarts, startState, queue,
                    senderBox, receiverBox, sent, received, clientBox, proxyBox, abortReq, dormant >>

\* The state the runtime puts a task in when it acts on the cancellation flag.
CancelledState == "aborted"

\* The runtime acts on the cancellation flag set at line 147: the future is
\* dropped at its next scheduling point, with its captures.
TaskCancelled(i) ==
    /\ proc = "running"
    /\ abortReq[i]
    /\ task[i] \in {"spawned", "serving"}
    /\ task' = [task EXCEPT ![i] = CancelledState]
    /\ senders' = [senders EXCEPT ![i] = @ - 1]
    /\ UNCHANGED << procVars, pc, ret, cur, errSlot, nCalls, nStarts, startState, queue,
                    senderBox, receiverBox, sent, received, clientBox, proxyBox, abortReq, dormant >>

\* ------------------------------------------------------------------- progress

\* arti_progress_next, lines 152-158: the caller passes the Tor bundle a returned
\* arti_start gave it; the thread enters blocking_recv.
ArtiProgressNextCall(t, i) ==
    /\ CanCall(t)
    /\ startState[i] \in {"failed", "ok"}
    /\ receiverBox[i] = "live"
    /\ \A u \in Threads : ~(pc[u] = "progress_next" /\ cur[u] = i)
    /\ nCalls' = nCalls + 1
    /\ pc' = [pc EXCEPT ![t] = "progress_next"]
    /\ cur' = [cur EXCEPT ![t] = i]
    /\ UNCHANGED << procVars, ret, errSlot, nStarts, startState, chanVars, handleVars >>

\* Receiver::blocking_recv: Some(head) when a message is pending, None when the
\* queue is empty and every Sender is gone; it does not return otherwise.
RecvReady(i) == queue[i] # << >> \/ senders[i] = 0

\* Faulty variant of RecvPick: the newest message is handed out.
RecvPick_Newest(q) == q[Len(q)]

\* The message blocking_recv hands out of queue q.
RecvPick(q) == Head(q)

\* The queue blocking_recv leaves behind.
RecvRest(q) == Tail(q)

\* arti_progress_next, lines 158-161: the match on blocking_recv's result.
ProgressNextResult(i) ==
    IF queue[i] # << >> THEN RecvPick(queue[i]) ELSE "No progress"

ArtiProgressNextReturn(t) ==
    LET i == cur[t]
    IN  /\ proc = "running"
        /\ pc[t] = "progress_next"
        /\ RecvReady(i)
        /\ ret' = [ret EXCEPT ![t] = [op |-> "progress_next", value |-> ProgressNextResult(i)]]
        /\ IF queue[i] # << >>
           THEN /\ queue' = [queue EXCEPT ![i] = RecvRest(@)]
                /\ received' = [received EXCEPT ![i] = Append(@, RecvPick(queue[i]))]
           ELSE UNCHANGED << queue, received >>
        /\ pc' = [pc EXCEPT ![t] = "idle"]
        /\ cur' = [cur EXCEPT ![t] = 0]
        /\ UNCHANGED << procVars, errSlot, nCalls, nStarts, startState, senders, senderBox, receiverBox,
                        sent, handleVars >>

\* ------------------------------------------------------------------ error slot

\* arti_last_error_message, lines 26-35.
LastErrorMessageResult(t) ==
    IF errSlot[SlotOf(t)] = NoError THEN << >> ELSE to_string(errSlot[SlotOf(t)])

ArtiLastErrorMessage(t) ==
    /\ CanCall(t)
    /\ nCalls' = nCalls + 1
    /\ ret' = [ret EXCEPT ![t] = [op |-> "last_error_message",
                                  value |-> LastErrorMessageResult(t)]]
    /\ errSlot' = take_last_error(t)
    /\ UNCHANGED << procVars, pc, cur, nStarts, startState, chanVars, handleVars >>

\* ---------------------------------------------------------------- caller misuse

\* A call that passes a pointer whose box was already freed (a second
\* arti_client_bootstrap, an arti_proxy_stop after arti_proxy_stop, ...):
\* Box::from_raw of a dangling pointer. Nothing is known of the process afterwards.
UseFreedHandle(t, i, which) ==
    /\ CanCall(t)
    /\ \/ which = "client" /\ clientBox[i] = "freed"
       \/ which = "proxy" /\ proxyBox[i] = "freed"
    /\ nCalls' = nCalls + 1
    /\ proc' = "undefined"
    /\ UNCHANGED << RUNTIME, tlsRuntimes, pc, ret, cur, errSlot, nStarts, startState,
                    chanVars, handleVars >>

\* ---------------------------------------------------------- execution contexts

\* The tokio runtimes built so far: the lazy static RUNTIME (Builder::build() at
\* line 18, forced at line 35) and one per TokioNativeTlsRuntime::create() at
\* line 73.
ContextsCreated == tlsRuntimes + (IF RUNTIME = "ok" THEN 1 ELSE 0)

\* The runtime the blocking work of session i is driven on: runtime.block_on at
\* line 88 and client.runtime().block_on at line 119 both use the
\* TokioNativeTlsRuntime that the arti_start call of session i created.
BlockOnContext(i) == << "TokioNativeTlsRuntime", i >>

\* The runtime the proxy task of session i is spawned on: rt.spawn at line 37,
\* rt being the static RUNTIME.
SpawnContext(i) == << "RUNTIME", 0 >>

\* ----------------------------------------------------------------------- Next

\* A step of thread t.
ThreadStep(t) ==
    \/ \E sd \in Paths, cd \in Paths : ArtiStartCall(t, sd, cd)
    \/ \E ok \in BOOLEAN, built \in BOOLEAN : ArtiStartBootstrapDone(t, ok, built)
    \/ \E i \in Sessions : ArtiClientBootstrapCall(t, i)
    \/ \E ok \in BOOLEAN : ArtiClientBootstrapDone(t, ok)
    \/ \E i \in Sessions, soft_mode \in BOOLEAN : ArtiClientSetDormant(t, i, soft_mode)
    \/ \E i \in Sessions : ArtiProxyStop(t, i)
    \/ \E i \in Sessions : ArtiProgressNextCall(t, i)
    \/ ArtiProgressNextReturn(t)
    \/ ArtiLastErrorMessage(t)
    \/ \E i \in Sessions, which \in {"client", "proxy"} : UseFreedHandle(t, i, which)

\* A step of the task spawned for session i, made by the runtime's workers.
TaskStep(i) ==
    \/ TaskSendStarted(i)
    \/ TaskExit(i)
    \/ TaskCancelled(i)

Next ==
    \/ \E t \in Threads : ThreadStep(t)
    \/ \E i \in Sessions : TaskStep(i)

Spec == Init /\ [][Next]_vars

\* -------------------------------------------------------- the channel harness

\* Sender::send(m) by a holder of the send end of session i (the pointer arti_start
\* handed out at line 64/106): completes when the queue has room.
HarnessSend(i, m) ==
    /\ proc = "running"
    /\ senderBox[i] = "live"
    /\ startState[i] \in {"failed", "ok"}
    /\ Len(sent[i]) < MaxSends
    /\ SendCompletes(queue[i])
    /\ queue' = [queue EXCEPT ![i] = Append(@, m)]
    /\ sent' = [sent EXCEPT ![i] = Append(@, m)]
    /\ UNCHANGED << procVars, pc, ret, cur, errSlot, nCalls, nStarts, startState, senders,
                    senderBox, receiverBox, received, handleVars >>

\* The holder of the send end of session i releases it: the Box<Sender> made at
\* line 57 is dropped.
HarnessDropSender(i) ==
    /\ proc = "running"
    /\ senderBox[i] = "live"
    /\ startState[i] \in {"failed", "ok"}
    /\ senderBox' = [senderBox EXCEPT ![i] = "freed"]
    /\ senders' = [senders EXCEPT ![i] = @ - 1]
    /\ UNCHANGED << procVars, pc, ret, cur, errSlot, nCalls, nStarts, startState, queue,
                    receiverBox, sent, received, handleVars >>

\* The thread that makes the boundary calls of the harness.
Poller == "A"

\* The session whose send end the harness producer holds: that of the first
\* arti_start.
HarnessSession == CHOOSE i \in Sessions : \A j \in Sessions : i <= j

\* The calls that create a channel and poll it, the task that sends on it, and a
\* producer that sends on, and then releases, the send end.
ChanNext ==
    \/ \E sd \in Paths, cd \in Paths : ArtiStartCall(Poller, sd, cd)
    \/ \E ok \in BOOLEAN, built \in BOOLEAN :
          ArtiStartBootstrapDone(Poller, ok, built)
    \/ \E i \in Sessions : ArtiProgressNextCall(Poller, i)
    \/ ArtiProgressNextReturn(Poller)
    \/ \E i \in Sessions : TaskSendStarted(i)
    \/ \E i \in Sessions : TaskExit(i)
    \/ \E m \in HarnessMsgs : HarnessSend(HarnessSession, m)
    \/ HarnessDropSender(HarnessSession)

ChanSpec == Init /\ [][ChanNext]_vars

\* ----------------------------------------------------------- the burst harness

\* The text of the next message of the burst: the two harness texts in turn.
BurstMsg(i) == IF Len(sent[i]) % 2 = 0 THEN "m1" ELSE "m2"

\* Sender::send by a producer that holds the send end of session i and sends up
\* to MaxBurst messages as fast as the channel takes them.
BurstSend(i) ==
    /\ proc = "running"
    /\ senderBox[i] = "live"
    /\ startState[i] \in {"failed", "ok"}
    /\ Len(sent[i]) < MaxBurst
    /\ SendCompletes(queue[i])
    /\ queue' = [queue EXCEPT ![i] = Append(@, BurstMsg(i))]
    /\ sent' = [sent EXCEPT ![i] = Append(@, BurstMsg(i))]
    /\ UNCHANGED << procVars, pc, ret, cur, errSlot, nCalls, nStarts, startState, senders,
                    senderBox, receiverBox, received, handleVars >>

\* The calls that create a channel and poll it, the task that sends on it, and a
\* producer that fills it.
BurstNext ==
    \/ \E sd \in Paths, cd \in Paths : ArtiStartCall(Poller, sd, cd)
    \/ \E ok \in BOOLEAN, built \in BOOLEAN :
          ArtiStartBootstrapDone(Poller, ok, built)
    \/ ArtiProgressNextCall(Poller, HarnessSession)
    \/ ArtiProgressNextReturn(Poller)
    \/ TaskSendStarted(HarnessSession)
    \/ BurstSend(HarnessSession)

BurstSpec == Init /\ [][BurstNext]_vars

\* ===================================================================== claims

\* Shapes of the Tor struct.
FourHandles(r) ==
    /\ r.client # NULL /\ r.proxy # NULL
    /\ r.progress_sender # NULL /\ r.progress_receiver # NULL

FailureShape(r) ==
    /\ r.client = NULL /\ r.proxy = NULL
    /\ r.progress_sender # NULL /\ r.progress_receiver # NULL

\* C1: whenever arti_start has returned on a thread, the Tor struct it returned has
\* either four non-null handles, or null client and proxy with both progress ends
\* non-null and an error in that thread's slot. (ret[t] is the value of the last
\* call t completed, so the slot is the one the failing call left.)
C1_StartReturnShapes ==
    \A t \in Threads :
        ret[t].op = "start" =>
            \/ FourHandles(ret[t])
            \/ FailureShape(ret[t]) /\ errSlot[t] # NoError

\* Both shapes have been returned.
C1_Witness ==
    /\ ret["A"].op = "start" /\ FourHandles(ret["A"])
    /\ ret["B"].op = "start" /\ FailureShape(ret["B"]) /\ errSlot["B"] # NoError

\* C2: every arti_last_error_message leaves the calling thread's slot empty; a read
\* of an empty slot returns the empty string; and a slot that is empty is filled
\* only by a failing call of its own thread. So the second of two reads with no
\* failing call of that thread in between returns the empty string.
C2_TakeOnce ==
    [][\A t \in Threads :
          /\ ArtiLastErrorMessage(t) =>
                /\ errSlot'[t] = NoError
                /\ (errSlot[t] = NoError => ret'[t].value = << >>)
                /\ (ret[t].op = "last_error_message" => ret'[t].value = << >>)
          /\ (errSlot[t] = NoError /\ errSlot'[t] # NoError) =>
                \/ ret'[t].op = "start" /\ FailureShape(ret'[t])
                \/ ret'[t].op = "client_bootstrap" /\ ret'[t].value = FALSE
      ]_vars

\* Thread A alone made three calls: a failing start, a read, and a second read,
\* which returned the empty string.
C2_Witness ==
    /\ proc = "running"
    /\ nCalls = 3 /\ nStarts = 1 /\ startState[1] = "failed"
    /\ ret["B"].op = "none" /\ pc["B"] = "idle"
    /\ pc["A"] = "idle"
    /\ ret["A"].op = "last_error_message" /\ ret["A"].value = << >>

\* s is a prefix of q.
IsPrefix(s, q) == Len(s) <= Len(q) /\ \A k \in 1 .. Len(s) : s[k] = q[k]

C4_BootstrapConsumes ==
    /\ [][\A t \in Threads, ok \in BOOLEAN :
             ArtiClientBootstrapDone(t, ok) => clientBox'[cur[t]] = "freed"]_vars
    /\ [][\A i \in Sessions : clientBox[i] = "freed" => clientBox'[i] = "freed"]_vars
    /\ [](\A i \in Sessions, t \in Threads :
             clientBox[i] = "freed" =>
                /\ ~ENABLED ArtiClientBootstrapCall(t, i)
                /\ \A soft_mode \in BOOLEAN : ~ENABLED ArtiClientSetDormant(t, i, soft_mode))

\* One client handle was consumed by a bootstrap that returned true, another by one
\* that returned false.
C4_Witness ==
    /\ ret["A"].op = "client_bootstrap" /\ ret["A"].value = TRUE
    /\ ret["B"].op = "client_bootstrap" /\ ret["B"].value = FALSE
    /\ \A i \in 1 .. 2 : clientBox[i] = "freed"

\* C5: arti_client_set_dormant leaves the box behind its client pointer live,
\* whatever the mode; a live client box stops being live only by an
\* arti_client_bootstrap call on it; and on a live box a thread free to call can
\* call arti_client_set_dormant and arti_client_bootstrap.
C5_SetDormantKeepsHandle ==
    /\ [][\A t \in Threads, i \in Sessions, soft_mode \in BOOLEAN :
             ArtiClientSetDormant(t, i, soft_mode) =>
                /\ clientBox'[i] = "live"
                /\ dormant'[i] = (IF soft_mode THEN "Soft" ELSE "Normal")]_vars
    /\ [][\A i \in Sessions :
             (clientBox[i] = "live" /\ clientBox'[i] # "live") =>
                \E t \in Threads : ArtiClientBootstrapCall(t, i)]_vars
    /\ [](\A i \in Sessions, t \in Threads :
             (clientBox[i] = "live" /\ CanCall(t)) =>
                /\ ENABLED ArtiClientBootstrapCall(t, i)
                /\ \A soft_mode \in BOOLEAN : ENABLED ArtiClientSetDormant(t, i, soft_mode))

\* Both threads called arti_client_set_dormant on the handle of the one start, the
\* last call with soft mode, and the handle is live.
C5_Witness ==
    /\ nStarts = 1 /\ nCalls >= 3
    /\ ret["A"].op = "client_set_dormant"
    /\ ret["B"].op = "client_set_dormant"
    /\ dormant[1] = "Soft"
    /\ clientBox[1] = "live"

\* C6: arti_proxy_stop on a live proxy handle requests the abort of the task of
\* that handle's session and of no other, and frees the box; a task that was
\* aborted stays aborted, an abort request is never withdrawn, only a task whose
\* abort was requested is aborted, and a freed proxy box is never live (so never
\* freed) again.
C6_ProxyStopAbortsOnce ==
    /\ [][\A t \in Threads, i \in Sessions :
             ArtiProxyStop(t, i) =>
                /\ proxyBox[i] = "live" /\ proxyBox'[i] = "freed"
                /\ abortReq'[i]
                /\ \A j \in Sessions \ {i} : abortReq'[j] = abortReq[j]]_vars
    /\ [][\A i \in Sessions :
             /\ task[i] = "aborted" => task'[i] = "aborted"
             /\ abortReq[i] => abortReq'[i]
             /\ proxyBox[i] = "freed" => proxyBox'[i] = "freed"]_vars
    /\ [](\A i \in Sessions : task[i] = "aborted" => abortReq[i] /\ proxyBox[i] = "freed")

\* A task was aborted after arti_proxy_stop freed its handle, while the task of
\* another start runs on.
C6_Witness ==
    \E i, j \in Sessions :
        /\ task[i] = "aborted" /\ proxyBox[i] = "freed"
        /\ task[j] = "serving" /\ ~abortReq[j] /\ proxyBox[j] = "live"

\* C7: a thread free to call can always complete arti_proxy_stop on a live proxy
\* handle, whatever the state of the task: the call waits for nothing.
C7_ProxyStopReturns ==
    \A t \in Threads, i \in Sessions :
        (CanCall(t) /\ proxyBox[i] = "live") => ENABLED ArtiProxyStop(t, i)

\* arti_proxy_stop has returned and the task has not stopped yet.
C7_Witness ==
    \E t \in Threads, i \in Sessions :
        /\ ret[t].op = "proxy_stop"
        /\ proxyBox[i] = "freed" /\ abortReq[i]
        /\ task[i] = "serving"

C9_DecodeFailure ==
    /\ [][nStarts' # nStarts =>
             \A t \in Threads, sd \in Paths, cd \in Paths :
                (ArtiStartCall(t, sd, cd) /\ (~ToStrOk(sd) \/ ~ToStrOk(cd))) =>
                   /\ pc'[t] = "idle"
                   /\ ret'[t].op = "start" /\ FailureShape(ret'[t])
                   /\ startState'[nStarts'] = "failed"
                   /\ errSlot'[t].kind = "Utf8Error"
                   /\ to_string(errSlot'[t])[1] = "invalid utf-8 sequence from index"
                   /\ tlsRuntimes' = tlsRuntimes
                   /\ clientBox' = clientBox /\ proxyBox' = proxyBox /\ task' = task
                   /\ sent' = sent]_vars
    /\ [](\A i \in Sessions :
             startState[i] = "failed" =>
                clientBox[i] = "none" /\ proxyBox[i] = "none" /\ task[i] = "none")

\* A start given "/" followed by the byte FF as cache_dir failed at the decoding.
C9_Witness ==
    \E t \in Threads :
        /\ ret[t].op = "start" /\ FailureShape(ret[t])
        /\ errSlot[t] = MkError("Utf8Error", 1, t)
        /\ nStarts = 1 /\ startState[1] = "failed" /\ tlsRuntimes = 0

\* C10: a slot only ever holds an error recorded by a call of its own thread; a
\* step that changes the slot of a thread is a step of that thread and of no other
\* (so no call of A writes or clears the slot of B); and arti_last_error_message
\* returns the message of the calling thread's own slot.
C10_SlotsPerThread ==
    /\ [](\A t \in Threads : errSlot[t] # NoError => errSlot[t].origin = t)
    /\ [][\A u \in Threads :
             /\ errSlot'[u] # errSlot[u] =>
                   /\ ThreadStep(u)
                   /\ \A t \in Threads \ {u} : ~ThreadStep(t)
             /\ (nCalls' # nCalls /\ ArtiLastErrorMessage(u)) =>
                   ret'[u].value = (IF errSlot[u] = NoError THEN << >>
                                    ELSE to_string(errSlot[u]))
         ]_vars

\* A holds an unread decoding error while B, whose own call failed at the
\* bootstrap, has read the bootstrap error.
C10_Witness ==
    /\ errSlot["A"].kind = "Utf8Error"
    /\ ret["A"].op = "start"
    /\ ret["B"].op = "last_error_message"
    /\ ret["B"].value = << "unable to bootstrap" >>
    /\ errSlot["B"] = NoError

\* C11, as the spec states it: at most one execution context is ever created in
\* the process, and the blocking bootstrap of arti_start, that of
\* arti_client_bootstrap and every spawned proxy task run on the same one.
C11_SingleContext ==
    /\ ContextsCreated <= 1
    /\ \A t \in Threads, i \in Sessions :
          (pc[t] \in {"start_bootstrap", "client_bootstrap"}
              /\ task[i] \in {"spawned", "serving"}) =>
             BlockOnContext(cur[t]) = SpawnContext(i)
    /\ \A t, u \in Threads :
          (pc[t] \in {"start_bootstrap", "client_bootstrap"}
              /\ pc[u] \in {"start_bootstrap", "client_bootstrap"}) =>
             BlockOnContext(cur[t]) = BlockOnContext(cur[u])

\* The non-null pointers of a Tor struct.
HandlesOf(r) == {r.client, r.proxy, r.progress_sender, r.progress_receiver} \ {NULL}

\* The addresses at which a box currently lives. (The allocator may hand the
\* address of a freed box out again; nothing is claimed of freed addresses.)
LivePtrs ==
    UNION { ( (IF senderBox[i] = "live" THEN {SenderPtr(i)} ELSE {})
              \cup (IF receiverBox[i] = "live" THEN {ReceiverPtr(i)} ELSE {})
              \cup (IF clientBox[i] \in {"live", "reclaimed"} THEN {ClientPtr(i)} ELSE {})
              \cup (IF proxyBox[i] = "live" THEN {ProxyPtr(i)} ELSE {}) ) : i \in Sessions }

\* C12: the Tor structs two threads hold from their arti_start calls, however the
\* two calls interleaved, have no live pointer in common, the pointers of one
\* struct are pairwise distinct, and a struct returned while the arti_start of
\* another thread is still in its bootstrap shares nothing with the channel ends
\* that call has already made; the send of a proxy task appends "Proxy started"
\* to the channel of its own start and leaves every other channel as it was, and
\* a channel only ever grows by the send of its own start's task.
C12_IndependentStarts ==
    /\ [](\A t, u \in Threads :
             (t # u /\ ret[t].op = "start") =>
                /\ Cardinality(HandlesOf(ret[t])) = (IF FourHandles(ret[t]) THEN 4 ELSE 2)
                /\ ret[u].op = "start" =>
                      HandlesOf(ret[t]) \cap HandlesOf(ret[u]) \cap LivePtrs = {}
                /\ pc[u] = "start_bootstrap" =>
                      /\ {SenderPtr(cur[u]), ReceiverPtr(cur[u])} \subseteq LivePtrs
                      /\ HandlesOf(ret[t])
                            \cap {SenderPtr(cur[u]), ReceiverPtr(cur[u])} = {})
    /\ [][sent' # sent =>
             \A i \in Sessions :
                /\ (task[i] = "spawned" /\ task'[i] = "serving") =>
                      /\ queue' = [queue EXCEPT ![i] = Append(@, "Proxy started")]
                      /\ sent' = [sent EXCEPT ![i] = Append(@, "Proxy started")]
                /\ sent'[i] # sent[i] => (task[i] = "spawned" /\ task'[i] = "serving")
         ]_vars

\* Thread B called arti_start while the call of thread A was in its bootstrap (A
\* called first: its channel is that of the first start) and B's call has
\* returned four handles; the task of B's start has published its event, on B's
\* channel only.
C12_Witness ==
    /\ pc["A"] = "start_bootstrap" /\ cur["A"] = 1
    /\ ret["B"].op = "start" /\ FourHandles(ret["B"])
    /\ ret["B"].progress_sender = SenderPtr(2)
    /\ sent[2] = << "Proxy started" >> /\ queue[2] = << "Proxy started" >>
    /\ sent[1] = << >> /\ queue[1] = << >>

\* C13: a failing call leaves its own error in the calling thread's slot whatever
\* the slot held before: a failing arti_start step the error of that step (for a
\* path that does not decode, the Utf8Error of that path), a failing bootstrap
\* the bootstrap error; the slot holds that one error only, and
\* arti_last_error_message returns its message.
C13_LastFailureWins ==
    [][\A t \in Threads :
          /\ (nStarts' # nStarts /\ ret'[t] = ErrRet(nStarts') /\ ret'[t] # ret[t]) =>
                /\ errSlot'[t].kind \in {"Utf8Error", "IoError", "ConfigBuildError"}
                /\ errSlot'[t].origin = t
                /\ \A sd \in Paths, cd \in Paths :
                      (ArtiStartCall(t, sd, cd) /\ ~(ToStrOk(sd) /\ ToStrOk(cd))) =>
                         errSlot'[t] = MkError("Utf8Error",
                                               IF ToStrOk(sd) THEN ValidUpTo(cd, 0)
                                               ELSE ValidUpTo(sd, 0), t)
          /\ (pc[t] = "start_bootstrap" /\ pc'[t] = "idle" /\ FailureShape(ret'[t])) =>
                errSlot'[t] = MkError("BootstrapError", 0, t)
          /\ (pc[t] = "client_bootstrap" /\ pc'[t] = "idle" /\ ~ret'[t].value) =>
                errSlot'[t] = MkError("BootstrapError", 0, t)
          /\ (nCalls' # nCalls /\ ret'[t].op = "last_error_message"
                 /\ errSlot[t] # NoError /\ errSlot'[t] = NoError) =>
                ret'[t].value = to_string(errSlot[t])
      ]_vars

\* Thread A alone made three calls: an arti_start that failed before its bootstrap
\* (no runtime of the two starts but one was created), an arti_start that failed
\* at its bootstrap, and a read, which returned the bootstrap error's message.
C13_Witness ==
    /\ nCalls = 3 /\ nStarts = 2
    /\ startState[1] = "failed" /\ startState[2] = "failed"
    /\ tlsRuntimes = 1
    /\ ret["B"].op = "none" /\ pc["B"] = "idle"
    /\ ret["A"].op = "last_error_message"
    /\ ret["A"].value = << "unable to bootstrap" >>
    /\ errSlot["A"] = NoError

C15_SendThenServe ==
    /\ [](\A i \in Sessions :
             task[i] \in {"serving", "finished"} =>
                \E k \in 1 .. Len(sent[i]) : sent[i][k] = "Proxy started")
    /\ [][task' # task =>
             \A i \in Sessions :
                /\ (task'[i] = "serving" /\ task[i] # "serving") =>
                      /\ task[i] = "spawned"
                      /\ sent'[i] = Append(sent[i], "Proxy started")
                      /\ queue'[i] = Append(queue[i], "Proxy started")
                /\ (task'[i] = "finished" /\ task[i] # "finished") => task[i] = "serving"
         ]_vars
    /\ [][\A i \in Sessions :
             (task[i] = "aborted" /\ sent[i] = << >>) =>
                task'[i] = "aborted" /\ sent'[i] = << >>]_vars

\* One task was cancelled before its event was enqueued and its service never
\* ran; the task of another start enqueued its event and runs the service.
C15_Witness ==
    \E i, j \in Sessions :
        /\ task[i] = "aborted" /\ sent[i] = << >>
        /\ task[j] = "serving" /\ sent[j] = << "Proxy started" >>

\* C16: a step of a proxy task (its send, the end of its service, its
\* cancellation) and an arti_proxy_stop leave every slot as it was; a slot that
\* comes to hold a new error does so in the step in which its own thread's
\* arti_start returns the failure shape or its own thread's
\* arti_client_bootstrap returns false, the error being one made on that thread.
C16_TaskErrorsUnrecorded ==
    [][/\ (task' # task \/ abortReq' # abortReq \/ sent' # sent) => errSlot' = errSlot
       /\ \A t \in Threads :
             (errSlot'[t] # errSlot[t] /\ errSlot'[t] # NoError) =>
                /\ pc'[t] = "idle"
                /\ errSlot'[t].origin = t
                /\ errSlot'[t].kind \in {"Utf8Error", "IoError", "ConfigBuildError",
                                         "BootstrapError"}
                /\ \/ /\ ret'[t].op = "start" /\ FailureShape(ret'[t])
                      /\ (pc[t] = "idle" /\ nStarts' # nStarts) \/ pc[t] = "start_bootstrap"
                   \/ /\ ret'[t].op = "client_bootstrap" /\ ~ret'[t].value
                      /\ pc[t] = "client_bootstrap"
      ]_vars

\* The service of one task has ended, the task of another start was cancelled
\* after an arti_proxy_stop, and no slot holds an error (both starts succeeded, so
\* none was ever written).
C16_Witness ==
    \E i, j \in Sessions :
        /\ task[i] = "finished"
        /\ task[j] = "aborted" /\ proxyBox[j] = "freed"
        /\ startState[i] = "ok" /\ startState[j] = "ok"
        /\ \A t \in Threads : errSlot[t] = NoError

\* C17, as the spec states it: once arti_start has handed out the two ends of a
\* channel, each end can be released on its own by a call across the boundary:
\* while a thread is free to call, some step frees the box of the send end and
\* leaves the receive end live, and some step frees the box of the receive end
\* and leaves the send end live.
C17_EndsReleasable ==
    \A i \in Sessions :
        (startState[i] \in {"failed", "ok"} /\ \E t \in Threads : CanCall(t)) =>
            /\ senderBox[i] = "live" =>
                  ENABLED (Next /\ senderBox'[i] = "freed"
                                /\ receiverBox'[i] = receiverBox[i])
            /\ receiverBox[i] = "live" =>
                  ENABLED (Next /\ receiverBox'[i] = "freed"
                                /\ senderBox'[i] = senderBox[i])

\* C18: over its whole life a channel has at most one message sent on it, and
\* that message is the "Proxy started" of a successful start; the channel of a
\* failed start has none; so at most one message is ever pending, and an
\* arti_progress_next on the channel of a failed start, or on a channel whose one
\* message was consumed, finds the queue empty (and, the boxed Sender being live,
\* does not return).
C18_AtMostOneMessage ==
    \A i \in Sessions :
        /\ Len(sent[i]) <= 1
        /\ Len(queue[i]) <= 1
        /\ \A k \in 1 .. Len(sent[i]) :
              sent[i][k] = "Proxy started" /\ startState[i] = "ok"
        /\ startState[i] = "failed" => sent[i] = << >> /\ queue[i] = << >>
        /\ \A t \in Threads :
              (pc[t] = "progress_next" /\ cur[t] = i
                  /\ (received[i] # << >> \/ startState[i] = "failed")) =>
                 /\ queue[i] = << >>
                 /\ ~ENABLED ArtiProgressNextReturn(t)

\* The one message of a successful start was consumed and a second
\* arti_progress_next on that channel is waiting; another start failed and
\* nothing was sent on its channel.
C18_Witness ==
    \E i, j \in Sessions, t \in Threads :
        /\ startState[i] = "ok" /\ received[i] = << "Proxy started" >>
        /\ pc[t] = "progress_next" /\ cur[t] = i /\ queue[i] = << >>
        /\ startState[j] = "failed" /\ sent[j] = << >>

\* C19: an arti_start that returns four handles, an arti_client_bootstrap that
\* returns true, and every arti_client_set_dormant, arti_proxy_stop and
\* arti_progress_next leave every slot as it was; a slot changes only in the step
\* in which its thread's arti_start returns the failure shape, its thread's
\* arti_client_bootstrap returns false, or arti_last_error_message empties it. So
\* an unread error is still in the slot after any number of such calls.
C19_SuccessKeepsSlot ==
    [][/\ \A t \in Threads :
             /\ (pc[t] = "start_bootstrap" /\ pc'[t] = "idle" /\ FourHandles(ret'[t])) =>
                   errSlot' = errSlot
             /\ (pc[t] = "client_bootstrap" /\ pc'[t] = "idle" /\ ret'[t].value) =>
                   errSlot' = errSlot
             /\ (pc'[t] # pc[t] /\ (pc[t] = "progress_next" \/ pc'[t] = "progress_next")) =>
                   errSlot' = errSlot
             /\ errSlot'[t] # errSlot[t] =>
                   \/ /\ ret'[t].op = "start" /\ FailureShape(ret'[t])
                      /\ (pc[t] = "idle" /\ nStarts' # nStarts) \/ pc[t] = "start_bootstrap"
                   \/ /\ ret'[t].op = "client_bootstrap" /\ ~ret'[t].value
                      /\ pc[t] = "client_bootstrap"
                   \/ /\ ret'[t].op = "last_error_message" /\ nCalls' # nCalls
                      /\ errSlot'[t] = NoError
                      /\ handleVars' = handleVars
       /\ (dormant' # dormant \/ proxyBox' # proxyBox \/ abortReq' # abortReq) =>
             errSlot' = errSlot
      ]_vars

\* Thread A alone made four calls: an arti_start that failed, an arti_start that
\* returned four handles, an arti_client_set_dormant (soft) on its client, and a
\* read, which returned the message of the first call's error.
C19_Witness ==
    /\ nCalls = 4 /\ nStarts = 2
    /\ startState[1] = "failed" /\ startState[2] = "ok"
    /\ dormant[2] = "Soft"
    /\ ret["B"].op = "none" /\ pc["B"] = "idle"
    /\ ret["A"].op = "last_error_message" /\ ret["A"].value # << >>
    /\ errSlot["A"] = NoError

\* C20: the step that frees a proxy box leaves every client box and dormant mode
\* as it was, and so does the end or the cancellation of a task; a step that
\* reclaims or frees a client box leaves every proxy box, abort request and task
\* as it was; a thread free to call can call arti_client_set_dormant and
\* arti_client_bootstrap on a live client handle whose proxy handle was stopped,
\* and arti_proxy_stop on a live proxy handle whose client handle was consumed;
\* and while the proxy handle of a consumed client is live, no abort of its task
\* was requested.
C20_IndependentHandles ==
    /\ [][\A i \in Sessions :
             /\ (proxyBox[i] = "live" /\ proxyBox'[i] # "live") =>
                   clientBox' = clientBox /\ dormant' = dormant
             /\ (task[i] \in {"spawned", "serving"} /\ task'[i] \in {"finished", "aborted"}) =>
                   clientBox' = clientBox /\ proxyBox' = proxyBox
             /\ (clientBox[i] \in {"live", "reclaimed"} /\ clientBox'[i] # clientBox[i]) =>
                   proxyBox' = proxyBox /\ abortReq' = abortReq /\ task' = task
         ]_vars
    /\ [](\A i \in Sessions, t \in Threads :
             CanCall(t) =>
                /\ (proxyBox[i] = "freed" /\ clientBox[i] = "live") =>
                      /\ ENABLED ArtiClientBootstrapCall(t, i)
                      /\ \A soft_mode \in BOOLEAN : ENABLED ArtiClientSetDormant(t, i, soft_mode)
                /\ (clientBox[i] = "freed" /\ proxyBox[i] = "live") =>
                      ENABLED ArtiProxyStop(t, i))
    /\ [](\A i \in Sessions :
             (clientBox[i] \in {"reclaimed", "freed"} /\ proxyBox[i] = "live") =>
                ~abortReq[i] /\ task[i] # "aborted")

\* On one start arti_proxy_stop was called and the client handle is live; on
\* another arti_client_bootstrap consumed the client handle and the proxy handle
\* is live, its task serving with no abort requested.
C20_Witness ==
    \E i, j \in Sessions :
        /\ proxyBox[i] = "freed" /\ abortReq[i] /\ clientBox[i] = "live"
        /\ clientBox[j] = "freed" /\ proxyBox[j] = "live"
        /\ task[j] = "serving" /\ ~abortReq[j]

====
